---- MODULE Spec2Model ----
(***************************************************************************)
(* Text Tools word counter (src/script.js): the text analytics functions   *)
(* as operators on strings, and the page that calls them (text input,      *)
(* statistics display, frequency lists, the two charts, the theme) as a    *)
(* state machine whose actions are the event handlers.                     *)
(*                                                                         *)
(* A text is a TLA+ string; CharAt(s, i) is its i-th character as a        *)
(* one-character string.  A JavaScript value that may be a number or a     *)
(* string is a record [type, n, s]; NaN is the record of type "NaN".       *)
(***************************************************************************)
EXTENDS Integers, Sequences, FiniteSets, TLC

\* Longest text the engine functions are applied to, character by character.
MaxLen == 3
\* Longest text the user types into the page, key by key.
MaxTyped == 2
\* Longest word countSyllablesInWord is applied to, character by character.
MaxWordLen == 4
\* Largest word count handed to the time estimators.
MaxWordCount == 1300
\* Most paste timers (setTimeout(updateStatistics, 10)) pending at once.
MaxPending == 2

\* The runs of initializeWordCounterTool are counted modulo this.
PollRunsModulus == 2

\* The characters of the texts the engine functions are applied to.
Alphabet == {"a", "b", "A", "7", " ", "\n", ".", "-"}

\* Longer texts the engine functions are applied to.
Samples ==
  { "a\n \nb", "a\n\n\nb", " \na\n\n", "a\n\nb\n \n\nc", "\ta \n\t\n b\nc ",
    "b 7 b", "constructor", "constructor a a", "__proto__ a", "reading a.",
    "Reading made easy", "constructor.", "The cat sat. The cat ran!",
    "b b 7 7", "constructor constructor", "b a b a b",
    "good", "Bad.", "good bad", "good good bad", "bad bad good",
    "good good good bad bad", "bad bad bad good good", "a sad, sad joy",
    "Bb aa c d", "c Bb d aa" }

\* Texts of 50 tokens and more, for the functions that look at the first 50.
RECURSIVE Repeat(_, _)
Repeat(s, n) == IF n = 0 THEN "" ELSE s \o Repeat(s, n - 1)

LongTexts ==
  { Repeat("a ", 10) \o Repeat("b ", 40),
    Repeat("a ", 11) \o Repeat("b ", 39),
    Repeat("a ", 10) \o Repeat("b ", 40) \o "a",
    Repeat("a ", 11) \o Repeat("b ", 44) }

\* The characters of the words countSyllablesInWord is applied to, and
\* longer words.
WordAlphabet == {"a", "e", "y", "l", "t", "d", "s", "E", "7"}

WordSamples == {"reading", "Reading", "played", "tables", "rhythm", "yellow", "queue"}

\* The keys the user types into the page.
Keys == {"a", "."}

\* Texts the user pastes into the page.
Clipboard == {" ", "b 7 b", "constructor", "a\n\nb.", "__proto__"}

(***************************************************************************)
(* The state of the page                                                   *)
(***************************************************************************)

VARIABLES
  textInputValue,              \* textInput.value
  phase,                       \* "loaded": the script has run; "ready": DOMContentLoaded is
                               \*   handled; "complete": the window's load event is handled
  listening,                   \* the input listener (updateStatistics) is registered
  pasteListeners,              \* how many paste listeners are registered
  buttonsInstalled,            \* the clear, copy and download buttons have their onclick
  stats,                       \* <<>> or <<the values updateStatistics last displayed>>
  topWordsList,                \* the three lists: [shown, items]
  charFrequencyTable,
  duplicateWordsList,
  wordFrequencyChartInstance,  \* <<>> (null) or <<the chart>>
  readingTimeChartInstance,
  liveWordFrequencyCharts,     \* Chart objects constructed on a canvas and not destroyed
  liveReadingTimeCharts,
  theme,                       \* the data-theme attribute
  storedTheme,                 \* localStorage 'theme', "" when absent
  toggledFrom,                 \* currentTheme as the last toggleTheme read it, "" before any
  pasteTimers,                 \* pending setTimeout(updateStatistics, 10)
  lastError,                   \* what ended the last handler: "none" or the uncaught error
  textInputPresent,            \* document.getElementById('text-input') is not null
  pollTimers,                  \* the delays of the pending setTimeout(initializeWordCounterTool, ..)
  initWordCounterCalls,        \* how many times initWordCounter has been called
  toolRuns,                    \* how many times initializeWordCounterTool has run,
                               \*   modulo PollRunsModulus
  arg,                         \* a direct call of an engine function: its argument
  ret                          \*   and <<>> or <<its results>>

vars ==
  << textInputValue, phase, listening, pasteListeners, buttonsInstalled, stats, topWordsList,
     charFrequencyTable, duplicateWordsList, wordFrequencyChartInstance,
     readingTimeChartInstance, liveWordFrequencyCharts, liveReadingTimeCharts, theme,
     storedTheme, toggledFrom, pasteTimers, lastError, textInputPresent, pollTimers,
     initWordCounterCalls, toolRuns, arg, ret >>

domVars == << stats, topWordsList, charFrequencyTable, duplicateWordsList >>
chartVars ==
  << wordFrequencyChartInstance, readingTimeChartInstance, liveWordFrequencyCharts,
     liveReadingTimeCharts >>
themeVars == << theme, storedTheme, toggledFrom >>
callVars == << arg, ret >>
pollVars == << textInputPresent, pollTimers, initWordCounterCalls, toolRuns >>

(***************************************************************************)
(* Characters and JavaScript values                                        *)
(***************************************************************************)

CharAt(s, i) == SubSeq(s, i, i)

LowerLetters == "abcdefghijklmnopqrstuvwxyz"
UpperLetters == "ABCDEFGHIJKLMNOPQRSTUVWXYZ"
DigitChars == "0123456789"

CharsOf(s) == { CharAt(s, i) : i \in 1..Len(s) }

\* [a-z], [A-Z], [0-9] and \w as sets of characters
LowerSet == CharsOf(LowerLetters)
UpperSet == CharsOf(UpperLetters)
DigitSet == CharsOf(DigitChars)
WordCharSet == LowerSet \cup UpperSet \cup DigitSet \cup {"_"}

\* \s of the regular expressions and the characters trim() strips.
WhiteSpace == {" ", "\n", "\t", "\r", "\f"}

IsSpace(c) == c \in WhiteSpace

\* \w : [A-Za-z0-9_]
IsWordChar(c) == c \in WordCharSet

\* String.prototype.toLowerCase, one character
LowerChar(c) ==
  IF \E i \in 1..Len(UpperLetters) : CharAt(UpperLetters, i) = c
  THEN CharAt(LowerLetters, CHOOSE i \in 1..Len(UpperLetters) : CharAt(UpperLetters, i) = c)
  ELSE c

\* String.prototype.toLowerCase: every character lower-cased, the text
\* taken by halves
RECURSIVE toLowerCase(_)
toLowerCase(s) ==
  IF Len(s) <= 1 THEN LowerChar(s)
  ELSE LET half == Len(s) \div 2
       IN  toLowerCase(SubSeq(s, 1, half)) \o toLowerCase(SubSeq(s, half + 1, Len(s)))

RECURSIVE trimStart(_)
trimStart(s) == IF s # "" /\ IsSpace(Head(s)) THEN trimStart(Tail(s)) ELSE s

RECURSIVE trimEnd(_)
trimEnd(s) ==
  IF s # "" /\ IsSpace(CharAt(s, Len(s))) THEN trimEnd(SubSeq(s, 1, Len(s) - 1)) ELSE s

\* String.prototype.trim
trim(s) == trimEnd(trimStart(s))

\* the guard  !text || text.trim().length === 0
IsBlank(text) == text = "" \/ Len(trim(text)) = 0

JSNumber(k) == [type |-> "number", n |-> k, s |-> ""]
JSString(str) == [type |-> "string", n |-> 0, s |-> str]
NaN == [type |-> "NaN", n |-> 0, s |-> ""]

Max(S) == CHOOSE x \in S : \A y \in S : y <= x
Min(S) == CHOOSE x \in S : \A y \in S : x <= y

\* Math.ceil(a / b) for integers a >= 0, b > 0
CeilDiv(a, b) == (a + b - 1) \div b

(***************************************************************************)
(* Splitting and matching                                                  *)
(***************************************************************************)

\* s.split(/[seps]+/) : the pieces between maximal runs of separator characters
RECURSIVE splitRuns(_, _, _, _, _)
splitRuns(s, seps, i, cur, inSep) ==
  IF i > Len(s) THEN <<cur>>
  ELSE IF CharAt(s, i) \in seps
       THEN IF inSep THEN splitRuns(s, seps, i + 1, cur, TRUE)
            ELSE <<cur>> \o splitRuns(s, seps, i + 1, "", TRUE)
       ELSE splitRuns(s, seps, i + 1, cur \o CharAt(s, i), FALSE)

SplitOnRuns(s, seps) == splitRuns(s, seps, 1, "", FALSE)

\* s.split('\n') : the pieces between single occurrences of the character c
RECURSIVE splitChar(_, _, _, _)
splitChar(s, c, i, cur) ==
  IF i > Len(s) THEN <<cur>>
  ELSE IF CharAt(s, i) = c THEN <<cur>> \o splitChar(s, c, i + 1, "")
       ELSE splitChar(s, c, i + 1, cur \o CharAt(s, i))

SplitOnChar(s, c) == splitChar(s, c, 1, "")

\* Ends of the matches of /\n\s*\n/ that start at i (s[i] is a newline).
BlankLineEnds(s, i) ==
  { j \in (i + 1)..Len(s) :
      /\ CharAt(s, j) = "\n"
      /\ \A k \in (i + 1)..(j - 1) : IsSpace(CharAt(s, k)) }

\* s.split(/\n\s*\n/) : leftmost match first, \s* greedy
RECURSIVE splitBlankLines(_, _, _)
splitBlankLines(s, i, start) ==
  IF i > Len(s) THEN << SubSeq(s, start, Len(s)) >>
  ELSE IF CharAt(s, i) = "\n" /\ BlankLineEnds(s, i) # {}
       THEN LET j == Max(BlankLineEnds(s, i))
            IN  << SubSeq(s, start, i - 1) >> \o splitBlankLines(s, j + 1, j + 1)
       ELSE splitBlankLines(s, i + 1, start)

SplitOnBlankLines(s) == splitBlankLines(s, 1, 1)

\* where a maximal run of word characters starts, and where the run that
\* starts at i ends
WordStarts(s) ==
  { i \in 1..Len(s) :
      IsWordChar(CharAt(s, i)) /\ (i = 1 \/ ~IsWordChar(CharAt(s, i - 1))) }

WordEnd(s, i) ==
  Min({ j \in i..Len(s) : j = Len(s) \/ ~IsWordChar(CharAt(s, j + 1)) })

\* s.match(/\b\w+\b/g) || [] : the maximal runs of word characters, in
\* the order in which they start
MatchWords(s) ==
  LET starts == WordStarts(s)
  IN  [ k \in 1..Cardinality(starts) |->
          LET i == CHOOSE x \in starts : Cardinality({ y \in starts : y < x }) = k - 1
          IN  SubSeq(s, i, WordEnd(s, i)) ]

\* s.replace(/\s/g, '')
RECURSIVE removeSpaces(_)
removeSpaces(s) ==
  IF s = "" THEN ""
  ELSE (IF IsSpace(Head(s)) THEN "" ELSE Head(s)) \o removeSpaces(Tail(s))

NonBlank(p) == Len(trim(p)) > 0
NonEmpty(p) == Len(p) > 0

\* the elements of a sequence
Range(seq) == { seq[i] : i \in 1..Len(seq) }

(***************************************************************************)
(* Counting                                                                *)
(***************************************************************************)

countWords(text) ==
  IF IsBlank(text) THEN 0
  ELSE Len(SelectSeq(SplitOnRuns(trim(text), WhiteSpace), NonEmpty))

countCharacters(text) == IF text = "" THEN 0 ELSE Len(text)

countCharactersNoSpaces(text) == IF text = "" THEN 0 ELSE Len(removeSpaces(text))

Terminators == {".", "!", "?"}

countSentences(text) ==
  IF IsBlank(text) THEN 0
  ELSE Len(SelectSeq(SplitOnRuns(trim(text), Terminators), NonBlank))

\* the segments countParagraphs keeps
ParagraphSegments(text) == SelectSeq(SplitOnBlankLines(trim(text)), NonBlank)

\* a plausible slip: every line break separates paragraphs
countParagraphs_everyLineBreak(text) ==
  IF IsBlank(text) THEN 0
  ELSE LET paragraphs == SelectSeq(SplitOnRuns(trim(text), {"\n"}), NonBlank)
       IN  IF Len(paragraphs) > 0 THEN Len(paragraphs) ELSE 1

countParagraphs(text) ==
  IF IsBlank(text) THEN 0
  ELSE LET paragraphs == ParagraphSegments(text)
       IN  IF Len(paragraphs) > 0 THEN Len(paragraphs) ELSE 1

\* a plausible slip: the lines of the trimmed text
countLines_trimmed(text) ==
  IF IsBlank(text) THEN 0 ELSE Len(SplitOnChar(trim(text), "\n"))

countLines(text) ==
  IF IsBlank(text) THEN 0 ELSE Len(SplitOnChar(text, "\n"))

countUniqueWords(text) ==
  IF IsBlank(text) THEN 0 ELSE Cardinality(Range(MatchWords(toLowerCase(text))))

getWords(text) ==
  IF IsBlank(text) THEN <<>> ELSE MatchWords(toLowerCase(text))

(***************************************************************************)
(* Time estimates                                                          *)
(***************************************************************************)

\* const wordsPerMinute of the three estimators
ReadingWordsPerMinute == 200
SpeakingWordsPerMinute == 150
SkimmingWordsPerMinute == 400

\* minutes = wordCount / wordsPerMinute is kept as the pair of integers:
\* minutes < k is wordCount < k * wordsPerMinute, and Math.ceil(minutes) is CeilDiv.
calculateReadingTime(wordCount) ==
  LET wordsPerMinute == ReadingWordsPerMinute
  IN  IF wordCount < 1 * wordsPerMinute THEN "< 1 min"
      ELSE IF wordCount < 2 * wordsPerMinute THEN "1 min"
      ELSE ToString(CeilDiv(wordCount, wordsPerMinute)) \o " min"

\* a plausible slip: Math.ceil alone above one minute
calculateSpeakingTime_ceilOnly(wordCount) ==
  LET wordsPerMinute == SpeakingWordsPerMinute
  IN  IF wordCount < 1 * wordsPerMinute THEN "< 1 min"
      ELSE ToString(CeilDiv(wordCount, wordsPerMinute)) \o " min"

calculateSpeakingTime(wordCount) ==
  LET wordsPerMinute == SpeakingWordsPerMinute
  IN  IF wordCount < 1 * wordsPerMinute THEN "< 1 min"
      ELSE IF wordCount < 2 * wordsPerMinute THEN "1 min"
      ELSE ToString(CeilDiv(wordCount, wordsPerMinute)) \o " min"

calculateSkimmingTime(wordCount) ==
  LET wordsPerMinute == SkimmingWordsPerMinute
  IN  IF wordCount < 1 * wordsPerMinute THEN "< 1 min"
      ELSE IF wordCount < 2 * wordsPerMinute THEN "1 min"
      ELSE ToString(CeilDiv(wordCount, wordsPerMinute)) \o " min"

(***************************************************************************)
(* Averages, syllables, readability                                        *)
(***************************************************************************)

\* (num / den).toFixed(1) for num >= 0, den > 0.  The quotients below have
\* denominators under 20, where a tie at the second decimal is a multiple
\* of 1/4, exact in binary, and toFixed takes the larger neighbour.
ToFixed1(num, den) ==
  LET tenths == (20 * num + den) \div (2 * den)
  IN  JSString(ToString(tenths \div 10) \o "." \o ToString(tenths % 10))

RECURSIVE SumLen(_)
SumLen(words) == IF words = <<>> THEN 0 ELSE Len(Head(words)) + SumLen(Tail(words))

calculateAverageWordLength(text) ==
  LET words == getWords(text)
  IN  IF Len(words) = 0 THEN JSNumber(0) ELSE ToFixed1(SumLen(words), Len(words))

calculateAverageSentenceLength(text) ==
  IF countSentences(text) = 0 THEN JSNumber(0)
  ELSE ToFixed1(countWords(text), countSentences(text))

calculateAverageWordsPerParagraph(text) ==
  IF countParagraphs(text) = 0 THEN JSNumber(0)
  ELSE ToFixed1(countWords(text), countParagraphs(text))

\* [^laeiouy]
NotLVowel(c) == c \notin {"l", "a", "e", "i", "o", "u", "y"}

Vowels == {"a", "e", "i", "o", "u", "y"}

\* a plausible slip: the suffixes are consonant + "es", consonant + "ed" and
\* consonant + "e", a consonant being any letter outside aeiouy
StripSuffix_anyConsonant(w) ==
  LET n == Len(w)
      Consonant(c) == c \in LowerSet \ Vowels
  IN  IF n >= 3 /\ Consonant(CharAt(w, n - 2)) /\ SubSeq(w, n - 1, n) \in {"es", "ed"}
      THEN SubSeq(w, 1, n - 3)
      ELSE IF n >= 2 /\ Consonant(CharAt(w, n - 1)) /\ CharAt(w, n) = "e"
      THEN SubSeq(w, 1, n - 2)
      ELSE w

\* word.replace(/(?:[^laeiouy]es|ed|[^laeiouy]e)$/, '') : the leftmost match
\* that ends the word, the alternatives tried in order
StripSuffix(w) ==
  LET n == Len(w)
  IN  IF n >= 3 /\ NotLVowel(CharAt(w, n - 2)) /\ SubSeq(w, n - 1, n) = "es"
      THEN SubSeq(w, 1, n - 3)
      ELSE IF n >= 2 /\ SubSeq(w, n - 1, n) = "ed" THEN SubSeq(w, 1, n - 2)
      ELSE IF n >= 2 /\ NotLVowel(CharAt(w, n - 1)) /\ CharAt(w, n) = "e"
      THEN SubSeq(w, 1, n - 2)
      ELSE w

\* word.replace(/^y/, '')
StripLeadingY(w) == IF w # "" /\ Head(w) = "y" THEN Tail(w) ELSE w

\* the number of matches of /[aeiouy]{1,2}/g from position i on
RECURSIVE vowelChunks(_, _)
vowelChunks(w, i) ==
  IF i > Len(w) THEN 0
  ELSE IF CharAt(w, i) \in Vowels
       THEN IF i + 1 <= Len(w) /\ CharAt(w, i + 1) \in Vowels
            THEN 1 + vowelChunks(w, i + 2)
            ELSE 1 + vowelChunks(w, i + 1)
       ELSE vowelChunks(w, i + 1)

countSyllablesInWord(word0) ==
  LET word == toLowerCase(word0)
  IN  IF Len(word) <= 3 THEN 1
      ELSE LET matches == vowelChunks(StripLeadingY(StripSuffix(word)), 1)
           IN  IF matches > 0 THEN matches ELSE 1

RECURSIVE sumSyllables(_)
sumSyllables(words) ==
  IF words = <<>> THEN 0
  ELSE countSyllablesInWord(Head(words)) + sumSyllables(Tail(words))

\* a plausible slip: the words are taken from the labels the word chart
\* holds (state a previous call left behind) instead of from the text
countSyllables_fromChart(text) ==
  IF wordFrequencyChartInstance # <<>>
  THEN sumSyllables(wordFrequencyChartInstance[1].labels)
  ELSE sumSyllables(getWords(text))

countSyllables(text) == sumSyllables(getWords(text))

JSNull == [type |-> "null", n |-> 0, s |-> ""]

\* Math.round(num / den) for den > 0 : floor(num / den + 1/2)
RoundDiv(num, den) == (2 * num + den) \div (2 * den)

\* a plausible slip: the upper limit alone
Clamp0To100_noFloor(x) == IF x > 100 THEN 100 ELSE x

\* Math.max(0, Math.min(100, x))
Clamp0To100(x) == IF x < 0 THEN 0 ELSE IF x > 100 THEN 100 ELSE x

\* 206.835 - 1.015 * (words / sentences) - 84.6 * (syllables / words),
\* as the fraction FleschNum / FleschDen
FleschNum(sentences, words, syllables) ==
  206835 * sentences * words - 1015 * words * words - 84600 * syllables * sentences

FleschDen(sentences, words) == 1000 * sentences * words

calculateFleschReadingEase(text) ==
  LET sentences == countSentences(text)
      words == countWords(text)
      syllables == countSyllables(text)
  IN  IF sentences = 0 \/ words = 0 THEN JSNull
      ELSE JSNumber(Clamp0To100(RoundDiv(FleschNum(sentences, words, syllables),
                                        FleschDen(sentences, words))))

getReadingLevel(fleschScore) ==
  IF fleschScore.type = "null" THEN "-"
  ELSE IF fleschScore.n >= 90 THEN "5th Grade"
  ELSE IF fleschScore.n >= 80 THEN "6th Grade"
  ELSE IF fleschScore.n >= 70 THEN "7th Grade"
  ELSE IF fleschScore.n >= 60 THEN "8th-9th Grade"
  ELSE IF fleschScore.n >= 50 THEN "10th-12th Grade"
  ELSE IF fleschScore.n >= 30 THEN "College"
  ELSE "College Graduate"

(***************************************************************************)
(* Language and sentiment                                                  *)
(***************************************************************************)

commonEnglishWords ==
  <<"the", "be", "to", "of", "and", "a", "in", "that", "have", "i", "it", "for",
    "not", "on", "with", "he", "as", "you", "do", "at">>

positiveWords ==
  <<"good", "great", "excellent", "amazing", "wonderful", "fantastic", "love",
    "happy", "joy", "pleased", "delighted", "perfect", "best", "awesome",
    "brilliant", "outstanding", "superb", "marvelous", "terrific", "fabulous">>

negativeWords ==
  <<"bad", "terrible", "awful", "horrible", "hate", "sad", "angry", "disappointed",
    "worst", "poor", "fail", "failure", "wrong", "error", "problem", "issue",
    "difficult", "hard", "tough", "struggle">>

\* words.filter(word => list.includes(word)).length
RECURSIVE CountIn(_, _)
CountIn(words, list) ==
  IF words = <<>> THEN 0
  ELSE (IF Head(words) \in Range(list) THEN 1 ELSE 0) + CountIn(Tail(words), list)

\* arr.slice(0, k) for k >= 0
Slice0(seq, k) == SubSeq(seq, 1, IF k < Len(seq) THEN k ELSE Len(seq))

\* a plausible slip: every token is looked at, not the first 50
detectLanguage_allWords(text) ==
  IF IsBlank(text) THEN "-"
  ELSE LET words == getWords(text)
           englishMatches == CountIn(words, commonEnglishWords)
           denom == Len(words)
       IN  IF denom > 0 /\ 5 * englishMatches > denom THEN "English"
           ELSE "English (likely)"

detectLanguage(text) ==
  IF IsBlank(text) THEN "-"
  ELSE LET words == Slice0(getWords(text), 50)
           englishMatches == CountIn(words, commonEnglishWords)
           denom == IF Len(words) < 50 THEN Len(words) ELSE 50
       IN  \* englishMatches / denom > 0.2 ; 0 / 0 is NaN, which is not > 0.2
           IF denom > 0 /\ 5 * englishMatches > denom THEN "English"
           ELSE "English (likely)"

\* a plausible slip: the thresholds taken inclusively
analyzeSentiment_inclusive(text) ==
  IF IsBlank(text) THEN [num |-> 0, den |-> 1, label |-> "-"]
  ELSE LET words == getWords(text)
           positiveCount == CountIn(words, positiveWords)
           negativeCount == CountIn(words, negativeWords)
           total == positiveCount + negativeCount
           num == 100 * (positiveCount - negativeCount)
       IN  IF total = 0 THEN [num |-> 0, den |-> 1, label |-> "Neutral"]
           ELSE IF num >= 20 * total THEN [num |-> num, den |-> total, label |-> "Positive"]
           ELSE IF num <= (-20) * total THEN [num |-> num, den |-> total, label |-> "Negative"]
           ELSE [num |-> num, den |-> total, label |-> "Neutral"]

\* The score as the fraction num / den.  In floating point a ratio of 1/5 is
\* the double nearest 0.2 and its product with 100 rounds to exactly 20, so
\* the comparisons with 20 and -20 agree with the exact ones.
analyzeSentiment(text) ==
  IF IsBlank(text) THEN [num |-> 0, den |-> 1, label |-> "-"]
  ELSE LET words == getWords(text)
           positiveCount == CountIn(words, positiveWords)
           negativeCount == CountIn(words, negativeWords)
           total == positiveCount + negativeCount
           num == 100 * (positiveCount - negativeCount)
       IN  IF total = 0 THEN [num |-> 0, den |-> 1, label |-> "Neutral"]
           ELSE IF num > 20 * total THEN [num |-> num, den |-> total, label |-> "Positive"]
           ELSE IF num < (-20) * total THEN [num |-> num, den |-> total, label |-> "Negative"]
           ELSE [num |-> num, den |-> total, label |-> "Neutral"]

(***************************************************************************)
(* Frequency tables.  The object  frequency = {}  is the sequence of its   *)
(* own properties <<key, value>> in creation order; what it inherits from  *)
(* Object.prototype is read through GetProperty.                           *)
(***************************************************************************)

\* String(Object), the text of a built-in function
ObjectFunctionText == "function Object() { [native code] }"

\* the property names Object.prototype gives every object literal that a
\* lower-cased token can spell, and what reading them yields as a string
InheritedText(key) ==
  IF key = "constructor" THEN ObjectFunctionText
  ELSE IF key = "__proto__" THEN "[object Object]"
  ELSE ""

IsInherited(key) == key \in {"constructor", "__proto__"}

HasOwn(obj, key) == \E i \in 1..Len(obj) : obj[i][1] = key

OwnValue(obj, key) == obj[CHOOSE i \in 1..Len(obj) : obj[i][1] = key][2]

\* (frequency[key] || 0) + 1 : a number is incremented; a string, or an
\* inherited function or object, is truthy and + appends "1" to its text
IncrementOf(obj, key) ==
  IF HasOwn(obj, key)
  THEN LET v == OwnValue(obj, key)
       IN  IF v.type = "number" THEN JSNumber(v.n + 1) ELSE JSString(v.s \o "1")
  ELSE IF IsInherited(key) THEN JSString(InheritedText(key) \o "1")
  ELSE JSNumber(1)

\* frequency[key] = v : assigning a string to __proto__ runs the inherited
\* setter, which ignores it; any other key becomes or stays an own property
SetProperty(obj, key, v) ==
  IF key = "__proto__" THEN obj
  ELSE IF HasOwn(obj, key)
       THEN [i \in 1..Len(obj) |-> IF obj[i][1] = key THEN <<key, v>> ELSE obj[i]]
       ELSE Append(obj, <<key, v>>)

\* words.forEach(word => { frequency[word] = (frequency[word] || 0) + 1; })
RECURSIVE CountInto(_, _)
CountInto(obj, keys) ==
  IF keys = <<>> THEN obj
  ELSE CountInto(SetProperty(obj, Head(keys), IncrementOf(obj, Head(keys))), Tail(keys))

RECURSIVE AllDigits(_)
AllDigits(s) == s = "" \/ (Head(s) \in DigitSet /\ AllDigits(Tail(s)))

DigitValue(c) == (CHOOSE i \in 1..10 : CharAt(DigitChars, i) = c) - 1

\* x < y for two digit strings of the same length
RECURSIVE DigitsBelow(_, _)
DigitsBelow(x, y) ==
  /\ x # ""
  /\ \/ DigitValue(Head(x)) < DigitValue(Head(y))
     \/ Head(x) = Head(y) /\ DigitsBelow(Tail(x), Tail(y))

\* x < y for two canonical decimal numerals
NumeralBelow(x, y) == Len(x) < Len(y) \/ (Len(x) = Len(y) /\ DigitsBelow(x, y))

\* an array index: the canonical decimal text of an integer below 2^32 - 1
IsArrayIndex(key) ==
  /\ key # ""
  /\ AllDigits(key)
  /\ (Len(key) = 1 \/ Head(key) # "0")
  /\ NumeralBelow(key, "4294967295")

IndexKey(e) == IsArrayIndex(e[1])
NameKey(e) == ~IsArrayIndex(e[1])

\* the own index properties in ascending numeric order
RECURSIVE AscendingIndices(_)
AscendingIndices(S) ==
  IF S = {} THEN <<>>
  ELSE LET e == CHOOSE x \in S : \A y \in S \ {x} : NumeralBelow(x[1], y[1])
       IN  <<e>> \o AscendingIndices(S \ {e})

\* Object.entries(obj) : index keys first, ascending; then the others in
\* creation order
ObjectEntries(obj) ==
  AscendingIndices(Range(SelectSeq(obj, IndexKey))) \o SelectSeq(obj, NameKey)

\* b[1] - a[1] : NaN unless both are numbers (the strings here never parse
\* as numbers: they hold the text of a function or of an object)
CompareCountDesc(a, b) ==
  IF a[2].type = "number" /\ b[2].type = "number" THEN JSNumber(b[2].n - a[2].n) ELSE NaN

\* the comparators handed to Array.prototype.sort
Comparator(kind, a, b) ==
  IF kind = "countDesc" THEN CompareCountDesc(a, b)
  ELSE IF kind = "lengthDesc" THEN JSNumber(Len(b) - Len(a))
  ELSE JSNumber(Len(a) - Len(b))

\* sort treats a comparator result of NaN as +0
ComesAfter(kind, x, e) ==
  LET c == Comparator(kind, x, e) IN c.type = "number" /\ c.n > 0

\* Array.prototype.sort is stable: an element goes after every earlier
\* element that does not compare greater than it.  (With a comparator that
\* is NaN for some pairs and orders others the order is left to the engine;
\* no text of Texts, Keys or Clipboard gives such a table.)
RECURSIVE insertPos(_, _, _, _)
insertPos(kind, sorted, e, j) ==
  IF j = 0 THEN 0
  ELSE IF ComesAfter(kind, sorted[j], e) THEN insertPos(kind, sorted, e, j - 1)
  ELSE j

RECURSIVE sortInto(_, _, _)
sortInto(kind, todo, sorted) ==
  IF todo = <<>> THEN sorted
  ELSE LET e == Head(todo)
           p == insertPos(kind, sorted, e, Len(sorted))
       IN  sortInto(kind, Tail(todo),
                    SubSeq(sorted, 1, p) \o <<e>> \o SubSeq(sorted, p + 1, Len(sorted)))

ArraySort(kind, seq) == sortInto(kind, seq, <<>>)

\* ([word, count]) => ({ word, count })
AsWordCount(entries) ==
  [i \in 1..Len(entries) |-> [word |-> entries[i][1], count |-> entries[i][2]]]

getMostFrequentWords(text, topN) ==
  LET words == getWords(text)
  IN  IF Len(words) = 0 THEN <<>>
      ELSE LET frequency == CountInto(<<>>, words)
           IN  AsWordCount(Slice0(ArraySort("countDesc", ObjectEntries(frequency)), topN))

\* for (let char of cleanText) if (/[a-z0-9]/.test(char)) ...
RECURSIVE CharsToCount(_)
CharsToCount(s) ==
  IF s = "" THEN <<>>
  ELSE (IF Head(s) \in LowerSet \cup DigitSet THEN <<Head(s)>> ELSE <<>>)
       \o CharsToCount(Tail(s))

\* The result is [isArray, entries]: an array of [char, count] pairs, or for
\* the empty string the object {} , which has no length and no map.
getCharacterFrequency(text) ==
  IF text = "" THEN [isArray |-> FALSE, entries |-> <<>>]
  ELSE LET cleanText == removeSpaces(toLowerCase(text))
           frequency == CountInto(<<>>, CharsToCount(cleanText))
       IN  [isArray |-> TRUE,
            entries |-> Slice0(ArraySort("countDesc", ObjectEntries(frequency)), 50)]

\* .filter(([word, count]) => count > 1) : a string that is no number is NaN
\* in the comparison, and NaN > 1 is false
CountAboveOne(e) == e[2].type = "number" /\ e[2].n > 1

findDuplicateWords(text) ==
  LET words == getWords(text)
  IN  IF Len(words) = 0 THEN <<>>
      ELSE LET frequency == CountInto(<<>>, words)
           IN  AsWordCount(ArraySort("countDesc",
                                     SelectSeq(ObjectEntries(frequency), CountAboveOne)))

\* a plausible slip: one sort, the longest read from its end
findLongestAndShortestWords_oneSort(text) ==
  LET words == getWords(text)
  IN  IF Len(words) = 0 THEN [longest |-> "-", shortest |-> "-"]
      ELSE LET sortedByLength == ArraySort("lengthAsc", words)
           IN  [longest |-> sortedByLength[Len(words)], shortest |-> sortedByLength[1]]

findLongestAndShortestWords(text) ==
  LET words == getWords(text)
  IN  IF Len(words) = 0 THEN [longest |-> "-", shortest |-> "-"]
      ELSE [longest |-> ArraySort("lengthDesc", words)[1],
            shortest |-> ArraySort("lengthAsc", words)[1]]

(***************************************************************************)
(* The page                                                                *)
(***************************************************************************)

\* the constants of updateStatistics, lines 438-458
ComputeStats(t) ==
  LET wordCount == countWords(t)
      fleschScore == calculateFleschReadingEase(t)
      sentiment == analyzeSentiment(t)
      words == findLongestAndShortestWords(t)
  IN  [ wordCount |-> wordCount,
        charCount |-> countCharacters(t),
        charNoSpacesCount |-> countCharactersNoSpaces(t),
        sentenceCount |-> countSentences(t),
        paragraphCount |-> countParagraphs(t),
        lineCount |-> countLines(t),
        uniqueWordsCount |-> countUniqueWords(t),
        readingTime |-> calculateReadingTime(wordCount),
        speakingTime |-> calculateSpeakingTime(wordCount),
        skimmingTime |-> calculateSkimmingTime(wordCount),
        avgWordLength |-> calculateAverageWordLength(t),
        avgSentenceLength |-> calculateAverageSentenceLength(t),
        avgWordsPerParagraph |-> calculateAverageWordsPerParagraph(t),
        syllableCount |-> countSyllables(t),
        fleschScore |-> fleschScore,
        readingLevel |-> getReadingLevel(fleschScore),
        detectedLanguage |-> detectLanguage(t),
        sentiment |-> sentiment,
        longest |-> words.longest,
        shortest |-> words.shortest ]

\* what a list element shows: the page's own markup, the empty message, or items
HtmlDefault == [shown |-> "html", items |-> <<>>]
EmptyMessage == [shown |-> "empty-message", items |-> <<>>]
Items(seq) == [shown |-> "items", items |-> seq]

\* updateTopWords
TopWordsShown(t) ==
  LET topWords == getMostFrequentWords(t, 10)
  IN  IF Len(topWords) = 0 THEN EmptyMessage ELSE Items(topWords)

\* updateCharacterFrequency, for a result that has length and map
CharFrequencyShown(frequency) ==
  IF Len(frequency.entries) = 0 THEN EmptyMessage ELSE Items(frequency.entries)

\* updateDuplicateWords
DuplicateWordsShown(t) ==
  LET duplicates == findDuplicateWords(t)
  IN  IF Len(duplicates) = 0 THEN EmptyMessage ELSE Items(Slice0(duplicates, 20))

\* updateWordFrequencyChart: destroy on no words, else update or construct
WordFrequencyChartAfter(t, dark) ==
  LET topWords == getMostFrequentWords(t, 10)
  IN  IF Len(topWords) = 0 THEN <<>>
      ELSE << [ labels |-> [i \in 1..Len(topWords) |-> topWords[i].word],
                data |-> [i \in 1..Len(topWords) |-> topWords[i].count],
                dark |-> dark ] >>

\* the digits of the first match of /(\d+)/ in a label, "" when there is none
RECURSIVE firstDigits(_, _)
firstDigits(s, cur) ==
  IF s = "" THEN cur
  ELSE IF Head(s) \in DigitSet THEN firstDigits(Tail(s), cur \o Head(s))
  ELSE IF cur # "" THEN cur
  ELSE firstDigits(Tail(s), "")

\* parseInt of a string of digits
RECURSIVE ParseDigits(_, _)
ParseDigits(s, acc) ==
  IF s = "" THEN acc ELSE ParseDigits(Tail(s), 10 * acc + DigitValue(Head(s)))

\* parseTime, in tenths of a minute: '< 1 min' is 0.5
parseTime(timeStr) ==
  IF timeStr = "< 1 min" THEN 5
  ELSE LET match == firstDigits(timeStr, "")
       IN  IF match # "" THEN 10 * ParseDigits(match, 0) ELSE 0

\* updateReadingTimeChart
ReadingTimeChartAfter(wordCount, readingTime, speakingTime, skimmingTime, dark) ==
  IF wordCount = 0 THEN <<>>
  ELSE << [ data |-> <<parseTime(readingTime), parseTime(speakingTime),
                       parseTime(skimmingTime)>>,
            dark |-> dark ] >>

\* The Chart objects alive on the word chart's canvas after
\* updateWordFrequencyChart: destroy() ends the one the handle holds, an
\* update in place keeps it, new Chart adds one.
LiveWordFrequencyChartsAfter(t) ==
  IF Len(getMostFrequentWords(t, 10)) = 0
  THEN IF wordFrequencyChartInstance # <<>> THEN liveWordFrequencyCharts - 1
       ELSE liveWordFrequencyCharts
  ELSE IF wordFrequencyChartInstance # <<>> THEN liveWordFrequencyCharts
       ELSE liveWordFrequencyCharts + 1

\* the same for updateReadingTimeChart
LiveReadingTimeChartsAfter(wordCount) ==
  IF wordCount = 0
  THEN IF readingTimeChartInstance # <<>> THEN liveReadingTimeCharts - 1
       ELSE liveReadingTimeCharts
  ELSE IF readingTimeChartInstance # <<>> THEN liveReadingTimeCharts
       ELSE liveReadingTimeCharts + 1

\* updateCharts(text, wordCount, readingTime, speakingTime, skimmingTime)
updateCharts(t, dark) ==
  LET wordCount == countWords(t)
  IN  /\ wordFrequencyChartInstance' = WordFrequencyChartAfter(t, dark)
      /\ liveWordFrequencyCharts' = LiveWordFrequencyChartsAfter(t)
      /\ readingTimeChartInstance' =
           ReadingTimeChartAfter(wordCount, calculateReadingTime(wordCount),
                                 calculateSpeakingTime(wordCount),
                                 calculateSkimmingTime(wordCount), dark)
      /\ liveReadingTimeCharts' = LiveReadingTimeChartsAfter(wordCount)

\* updateStatistics on a page that has every element.  The statistics and
\* the top words are displayed first; updateCharacterFrequency then calls
\* frequency.map, and when the frequency is the object {} that is a TypeError
\* nothing catches: the handler ends there, before the duplicate words and
\* the charts.
updateStatistics(t) ==
  LET frequency == getCharacterFrequency(t)
  IN  /\ stats' = <<ComputeStats(t)>>
      /\ topWordsList' = TopWordsShown(t)
      /\ IF frequency.isArray
         THEN /\ charFrequencyTable' = CharFrequencyShown(frequency)
              /\ duplicateWordsList' = DuplicateWordsShown(t)
              /\ updateCharts(t, theme = "dark")
              /\ lastError' = "none"
         ELSE /\ UNCHANGED << charFrequencyTable, duplicateWordsList, chartVars >>
              /\ lastError' = "TypeError: frequency.map is not a function"

\* initTheme: savedTheme || (systemPrefersDark ? 'dark' : 'light')
initTheme(savedTheme, systemPrefersDark) ==
  IF savedTheme # "" THEN savedTheme ELSE IF systemPrefersDark THEN "dark" ELSE "light"

\* what localStorage may hold when the script starts
SavedThemes == {"", "dark", "light", "sepia"}

\* The state once the script has run: the theme is set, nothing is displayed yet.
Init ==
  /\ textInputValue = ""
  /\ phase = "loaded"
  /\ listening = FALSE
  /\ pasteListeners = 0
  /\ buttonsInstalled = FALSE
  /\ stats = <<>>
  /\ topWordsList = HtmlDefault
  /\ charFrequencyTable = HtmlDefault
  /\ duplicateWordsList = HtmlDefault
  /\ wordFrequencyChartInstance = <<>>
  /\ readingTimeChartInstance = <<>>
  /\ liveWordFrequencyCharts = 0
  /\ liveReadingTimeCharts = 0
  /\ storedTheme \in SavedThemes
  /\ \E systemPrefersDark \in BOOLEAN : theme = initTheme(storedTheme, systemPrefersDark)
  /\ toggledFrom = ""
  /\ pasteTimers = 0
  /\ lastError = "none"
  /\ textInputPresent = TRUE
  /\ pollTimers = <<>>
  /\ initWordCounterCalls = 0
  /\ toolRuns = 0
  /\ arg = <<>>
  /\ ret = <<>>

\* initWordCounter: nothing when the page has no text input; on a page that
\* has the input and the three buttons the two listeners are registered
\* (addEventListener ignores updateStatistics when it is registered already;
\* the paste listener is a new function every time), updateStatistics runs,
\* and only if it returns are the buttons' onclick handlers installed.
initWordCounter ==
  /\ initWordCounterCalls' = initWordCounterCalls + 1
  /\ IF ~textInputPresent
     THEN UNCHANGED << listening, pasteListeners, buttonsInstalled, domVars, chartVars,
                       lastError >>
     ELSE /\ listening' = TRUE
          /\ pasteListeners' = pasteListeners + 1
          /\ updateStatistics(textInputValue)
          /\ buttonsInstalled' = (lastError' = "none")

\* setTimeout(initializeWordCounterTool, 50)
PollDelay == 50

\* setTimeout(initializeWordCounterTool, 100)
ReadyStateDelay == 100

\* a plausible slip: the retry is scheduled whether or not the input was found
initializeWordCounterTool_alwaysRetries(pending) ==
  /\ toolRuns' = (toolRuns + 1) % PollRunsModulus
  /\ pollTimers' = Append(pending, PollDelay)
  /\ IF textInputPresent
     THEN initWordCounter
     ELSE UNCHANGED << listening, pasteListeners, buttonsInstalled, domVars, chartVars,
                       lastError, initWordCounterCalls >>

\* initializeWordCounterTool, run while the timers in pending are waiting:
\* initWordCounter when the page has the text input, a retry 50 ms later
\* otherwise
initializeWordCounterTool(pending) ==
  /\ toolRuns' = (toolRuns + 1) % PollRunsModulus
  /\ IF textInputPresent
     THEN /\ initWordCounter
          /\ pollTimers' = pending
     ELSE /\ pollTimers' = Append(pending, PollDelay)
          /\ UNCHANGED << listening, pasteListeners, buttonsInstalled, domVars, chartVars,
                          lastError, initWordCounterCalls >>

\* DOMContentLoaded: the theme toggles get their click listener, and
\* initializeWordCounterTool runs.
InitWordCounter ==
  /\ phase = "loaded"
  /\ phase' = "ready"
  /\ initializeWordCounterTool(pollTimers)
  /\ UNCHANGED << textInputValue, textInputPresent, themeVars, pasteTimers, callVars >>

\* the window's load event: initWordCounter once more when the page has the
\* text input and the clear button has no onclick
WindowLoad ==
  /\ phase = "ready"
  /\ phase' = "complete"
  /\ IF textInputPresent /\ ~buttonsInstalled
     THEN initWordCounter
     ELSE UNCHANGED << listening, pasteListeners, buttonsInstalled, domVars, chartVars,
                       lastError, initWordCounterCalls >>
  /\ UNCHANGED << textInputValue, textInputPresent, pollTimers, toolRuns, themeVars,
                  pasteTimers, callVars >>

\* the sequence seq without its i-th element
RemoveAt(seq, i) == SubSeq(seq, 1, i - 1) \o SubSeq(seq, i + 1, Len(seq))

\* the i-th pending timer of initializeWordCounterTool fires
PollTimer(i) ==
  /\ i \in DOMAIN pollTimers
  /\ initializeWordCounterTool(RemoveAt(pollTimers, i))
  /\ UNCHANGED << textInputValue, phase, textInputPresent, themeVars, pasteTimers,
                  callVars >>

\* another script adds the text input and the buttons to a page that had
\* none, the input holding the value v
InsertTextInput(v) ==
  /\ ~textInputPresent
  /\ textInputPresent' = TRUE
  /\ textInputValue' = v
  /\ UNCHANGED << phase, listening, pasteListeners, buttonsInstalled, domVars, chartVars,
                  themeVars, pasteTimers, lastError, pollTimers, initWordCounterCalls,
                  toolRuns, callVars >>

\* an input event after the user typed c at the end
TypeChar(c) ==
  /\ listening
  /\ Len(textInputValue) < MaxTyped
  /\ textInputValue' = textInputValue \o c
  /\ updateStatistics(textInputValue')
  /\ UNCHANGED << phase, listening, pasteListeners, buttonsInstalled, themeVars, pasteTimers,
                  callVars, pollVars >>

\* an input event after the user deleted the last character
Backspace ==
  /\ listening
  /\ textInputValue # ""
  /\ textInputValue' = SubSeq(textInputValue, 1, Len(textInputValue) - 1)
  /\ updateStatistics(textInputValue')
  /\ UNCHANGED << phase, listening, pasteListeners, buttonsInstalled, themeVars, pasteTimers,
                  callVars, pollVars >>

\* the user replaces the whole text by a pasted one: every paste listener
\* schedules updateStatistics, and the input event that follows runs it
Paste(s) ==
  /\ listening
  /\ pasteTimers + pasteListeners <= MaxPending
  /\ textInputValue' = s
  /\ pasteTimers' = pasteTimers + pasteListeners
  /\ updateStatistics(textInputValue')
  /\ UNCHANGED << phase, listening, pasteListeners, buttonsInstalled, themeVars, callVars,
                  pollVars >>

\* the timer of a paste fires
PasteTimer ==
  /\ pasteTimers > 0
  /\ pasteTimers' = pasteTimers - 1
  /\ updateStatistics(textInputValue)
  /\ UNCHANGED << textInputValue, phase, listening, pasteListeners, buttonsInstalled,
                  themeVars, callVars, pollVars >>

\* clearText, called by the clear button or through window.clearText
ClearText ==
  /\ phase # "loaded"
  /\ textInputValue' = ""
  /\ updateStatistics(textInputValue')
  /\ UNCHANGED << phase, listening, pasteListeners, buttonsInstalled, themeVars, pasteTimers,
                  callVars, pollVars >>

\* a plausible slip: the test is for 'light'
NewTheme_testsLight(currentTheme) == IF currentTheme = "light" THEN "dark" ELSE "light"

\* const newTheme = currentTheme === 'dark' ? 'light' : 'dark'
NewTheme(currentTheme) == IF currentTheme = "dark" THEN "light" ELSE "dark"

\* toggleTheme, by a click on a theme toggle (the listener is there from
\* DOMContentLoaded on), then updateThemeIcon: the charts are redrawn when
\* the input holds text
ToggleTheme ==
  /\ phase # "loaded"
  /\ toggledFrom' = theme
  /\ theme' = NewTheme(theme)
  /\ storedTheme' = theme'
  /\ IF textInputValue # ""
     THEN updateCharts(textInputValue, theme' = "dark")
     ELSE UNCHANGED chartVars
  /\ UNCHANGED << textInputValue, phase, listening, pasteListeners, buttonsInstalled, domVars,
                  pasteTimers, lastError, callVars, pollVars >>

Next ==
  \/ InitWordCounter
  \/ WindowLoad
  \/ \E c \in Keys : TypeChar(c)
  \/ Backspace
  \/ \E s \in Clipboard : Paste(s)
  \/ PasteTimer
  \/ ClearText
  \/ ToggleTheme

Spec == Init /\ [][Next]_vars

(***************************************************************************)
(* The initialization on any page and at any document.readyState: the      *)
(* text input may be absent and may be added later.  The browser delivers  *)
(* DOMContentLoaded and fires the timers that are due, hence the weak      *)
(* fairness of those two steps; nothing obliges a page to add the input.   *)
(***************************************************************************)

\* What the text input may hold before any listener is registered.
RestoredValues == {"", "a"}

\* document.readyState when the script runs
ReadyStates == {"loading", "interactive", "complete"}

\* The events already past when the script runs at readyState: a deferred
\* script runs at 'interactive' before DOMContentLoaded, a script added
\* later runs after it.
PhasesAt(readyState) ==
  CASE readyState = "loading" -> {"loaded"}
    [] readyState = "interactive" -> {"loaded", "ready"}
    [] readyState = "complete" -> {"complete"}

\* The state once the script has run, on any page.
InitPolling ==
  /\ textInputPresent \in BOOLEAN
  /\ textInputValue \in (IF textInputPresent THEN RestoredValues ELSE {""})
  /\ \E readyState \in ReadyStates :
       /\ phase \in PhasesAt(readyState)
       /\ pollTimers = IF readyState \in {"complete", "interactive"}
                       THEN <<ReadyStateDelay>>
                       ELSE <<>>
  /\ listening = FALSE
  /\ pasteListeners = 0
  /\ buttonsInstalled = FALSE
  /\ stats = <<>>
  /\ topWordsList = HtmlDefault
  /\ charFrequencyTable = HtmlDefault
  /\ duplicateWordsList = HtmlDefault
  /\ wordFrequencyChartInstance = <<>>
  /\ readingTimeChartInstance = <<>>
  /\ liveWordFrequencyCharts = 0
  /\ liveReadingTimeCharts = 0
  /\ storedTheme \in SavedThemes
  /\ \E systemPrefersDark \in BOOLEAN : theme = initTheme(storedTheme, systemPrefersDark)
  /\ toggledFrom = ""
  /\ pasteTimers = 0
  /\ lastError = "none"
  /\ initWordCounterCalls = 0
  /\ toolRuns = 0
  /\ arg = <<>>
  /\ ret = <<>>

\* one of the pending timers of initializeWordCounterTool fires
PollTimers == \E i \in DOMAIN pollTimers : PollTimer(i)

NextPolling ==
  \/ InitWordCounter
  \/ WindowLoad
  \/ PollTimers
  \/ \E v \in RestoredValues : InsertTextInput(v)

\* The steps of NextPolling that deliver DOMContentLoaded are the
\* InitWordCounter steps, and they are enabled exactly when phase is "loaded".
DOMContentLoaded == phase = "loaded" /\ phase' = "ready"

\* The steps of NextPolling in which a timer of initializeWordCounterTool
\* fires are the PollTimers steps, and they are enabled exactly when a timer
\* is pending.
TimerFires ==
  /\ pollTimers # <<>>
  /\ phase' = phase
  /\ toolRuns' = (toolRuns + 1) % PollRunsModulus

\* DOMContentLoaded and TimerFires name the steps of the two actions.
FairStepsAreTheActions ==
  [][(DOMContentLoaded <=> InitWordCounter) /\ (TimerFires <=> PollTimers)]_vars

\* ... and are enabled when the two actions are.
FairStepsEnabledAsTheActions ==
  /\ (ENABLED <<InitWordCounter>>_vars) = (ENABLED <<DOMContentLoaded>>_phase)
  /\ (ENABLED <<PollTimers>>_vars) = (ENABLED <<TimerFires>>_toolRuns)

\* Weak fairness of InitWordCounter and of PollTimers, written on the two
\* variables that tell their steps.
SpecPolling ==
  /\ InitPolling
  /\ [][NextPolling]_vars
  /\ WF_phase(DOMContentLoaded)
  /\ WF_toolRuns(TimerFires)

(***************************************************************************)
(* The engine functions applied directly: the argument is drawn from the   *)
(* texts over Alphabet up to MaxLen and the samples, or from the word      *)
(* counts up to MaxWordCount; the page is left as the script found it.     *)
(***************************************************************************)

RECURSIVE StringsUpTo(_)
StringsUpTo(k) ==
  IF k = 0 THEN {""}
  ELSE LET S == StringsUpTo(k - 1) IN S \cup { s \o c : s \in S, c \in Alphabet }

Texts == StringsUpTo(MaxLen) \cup Samples

PageUntouched ==
  /\ textInputValue = ""
  /\ phase = "loaded"
  /\ listening = FALSE
  /\ pasteListeners = 0
  /\ buttonsInstalled = FALSE
  /\ stats = <<>>
  /\ topWordsList = HtmlDefault
  /\ charFrequencyTable = HtmlDefault
  /\ duplicateWordsList = HtmlDefault
  /\ wordFrequencyChartInstance = <<>>
  /\ readingTimeChartInstance = <<>>
  /\ liveWordFrequencyCharts = 0
  /\ liveReadingTimeCharts = 0
  /\ storedTheme = ""
  /\ theme = "light"
  /\ toggledFrom = ""
  /\ pasteTimers = 0
  /\ lastError = "none"
  /\ textInputPresent = TRUE
  /\ pollTimers = <<>>
  /\ initWordCounterCalls = 0
  /\ toolRuns = 0

pageVars ==
  << textInputValue, phase, listening, pasteListeners, buttonsInstalled, stats, topWordsList,
     charFrequencyTable, duplicateWordsList, wordFrequencyChartInstance,
     readingTimeChartInstance, liveWordFrequencyCharts, liveReadingTimeCharts, theme,
     storedTheme, toggledFrom, pasteTimers, lastError, textInputPresent, pollTimers,
     initWordCounterCalls, toolRuns >>

InitEngine ==
  /\ PageUntouched
  /\ arg \in { <<t>> : t \in Texts \cup LongTexts }
  /\ ret = <<>>

\* every engine function of updateStatistics and of the three list updates,
\* applied to the text arg[1]
Analyze ==
  /\ ret = <<>>
  /\ arg[1] \notin LongTexts
  /\ ret' = << [ stats |-> ComputeStats(arg[1]),
                 topWords |-> getMostFrequentWords(arg[1], 10),
                 frequency |-> getCharacterFrequency(arg[1]),
                 duplicates |-> findDuplicateWords(arg[1]),
                 duplicatesShown |-> DuplicateWordsShown(arg[1]),
                 segments |-> ParagraphSegments(arg[1]) ] >>
  /\ UNCHANGED << pageVars, arg >>

\* detectLanguage applied to a long text
DetectLanguage ==
  /\ ret = <<>>
  /\ arg[1] \in LongTexts
  /\ ret' = << [ detectedLanguage |-> detectLanguage(arg[1]) ] >>
  /\ UNCHANGED << pageVars, arg >>

NextEngine == Analyze \/ DetectLanguage

SpecEngine == InitEngine /\ [][NextEngine]_vars

InitTime ==
  /\ PageUntouched
  /\ arg \in { <<wordCount>> : wordCount \in 0..MaxWordCount }
  /\ ret = <<>>

\* the three time estimators applied to the word count arg[1]
EstimateTimes ==
  /\ ret = <<>>
  /\ ret' = << [ readingTime |-> calculateReadingTime(arg[1]),
                 speakingTime |-> calculateSpeakingTime(arg[1]),
                 skimmingTime |-> calculateSkimmingTime(arg[1]) ] >>
  /\ UNCHANGED << pageVars, arg >>

NextTime == EstimateTimes

SpecTime == InitTime /\ [][NextTime]_vars

RECURSIVE WordsUpTo(_)
WordsUpTo(k) ==
  IF k = 0 THEN {""}
  ELSE LET S == WordsUpTo(k - 1) IN S \cup { s \o c : s \in S, c \in WordAlphabet }

Words == WordsUpTo(MaxWordLen) \cup WordSamples

InitWord ==
  /\ PageUntouched
  /\ arg \in { <<word>> : word \in Words }
  /\ ret = <<>>

\* countSyllablesInWord applied to the word arg[1]
CountSyllablesInWord ==
  /\ ret = <<>>
  /\ ret' = << countSyllablesInWord(arg[1]) >>
  /\ UNCHANGED << pageVars, arg >>

NextWord == CountSyllablesInWord

SpecWord == InitWord /\ [][NextWord]_vars

(***************************************************************************)
(* Properties                                                              *)
(***************************************************************************)

\* a call of Analyze or EstimateTimes has returned (DetectLanguage returns
\* the one field detectedLanguage)
Analyzed == ret # <<>> /\ "detectedLanguage" \notin DOMAIN ret[1]
Result == ret[1]
Input == arg[1]

Occurrences(seq, x) == Cardinality({ i \in 1..Len(seq) : seq[i] = x })
FirstIndex(seq, x) == Min({ i \in 1..Len(seq) : seq[i] = x })

\* C1: for every text, countUniqueWords(text) <= countWords(text).
C1_UniqueAtMostWords ==
  Analyzed => Result.stats.uniqueWordsCount <= Result.stats.wordCount

\* C2: for empty or whitespace-only text the word, sentence, paragraph, line,
\* unique-word, syllable and non-space character counts are 0, the Flesch score
\* is null, the reading level, language, sentiment label, longest and
\* shortest word are "-", and mostFrequentWords, characterFrequency and
\* duplicateWords each return an empty sequence (something with a length
\* that can be iterated).
C2_BlankTextIsTheZeroCase ==
  (Analyzed /\ IsBlank(Input)) =>
    LET st == Result.stats
    IN  /\ st.wordCount = 0
        /\ st.charNoSpacesCount = 0
        /\ st.sentenceCount = 0
        /\ st.paragraphCount = 0
        /\ st.lineCount = 0
        /\ st.uniqueWordsCount = 0
        /\ st.syllableCount = 0
        /\ st.fleschScore = JSNull
        /\ st.readingLevel = "-"
        /\ st.detectedLanguage = "-"
        /\ st.sentiment.label = "-"
        /\ st.longest = "-"
        /\ st.shortest = "-"
        /\ Result.topWords = <<>>
        /\ Result.duplicates = <<>>
        /\ Result.frequency.isArray
        /\ Result.frequency.entries = <<>>

\* C3: in mostFrequentWords(text, topN), entries with equal counts appear in
\* the order in which their words first occur in the text, digit-only
\* tokens included.
C3_TiesInFirstSeenOrder ==
  Analyzed =>
    LET top == Result.topWords
        words == getWords(Input)
    IN  \A i, j \in 1..Len(top) :
          (i < j /\ top[i].count = top[j].count) =>
            FirstIndex(words, top[i].word) < FirstIndex(words, top[j].word)

\* C4: mostFrequentWords(text, topN) has at most min(topN, number of distinct
\* tokens) entries, its counts do not increase along the sequence, and each
\* entry's count is the number of occurrences of its word in getWords(text).
C4_TopWordsCounts ==
  Analyzed =>
    LET top == Result.topWords
        words == getWords(Input)
    IN  /\ Len(top) <= 10
        /\ Len(top) <= Cardinality(Range(words))
        /\ \A i \in 1..Len(top) : top[i].count = JSNumber(Occurrences(words, top[i].word))
        /\ \A i, j \in 1..Len(top) :
             (i < j /\ top[i].count.type = "number" /\ top[j].count.type = "number") =>
               top[i].count.n >= top[j].count.n

\* C5: fleschReadingEase(text) is null exactly when the text has no sentence
\* or no word; otherwise it is an integer from 0 to 100, also when the text
\* has no \w token and so no syllable.
C5_FleschNullOrInRange ==
  Analyzed =>
    LET st == Result.stats
    IN  /\ (st.fleschScore.type = "null") <=> (st.sentenceCount = 0 \/ st.wordCount = 0)
        /\ st.fleschScore.type # "null" =>
             (st.fleschScore.type = "number" /\ st.fleschScore.n \in 0..100)

\* a text of one word and one sentence without any \w token: no syllables
C5_Witness ==
  /\ Analyzed
  /\ getWords(Input) = <<>>
  /\ Result.stats.syllableCount = 0
  /\ Result.stats.fleschScore = JSNumber(100)

\* the label the three-branch policy gives wordCount words at wpm words per
\* minute; the ceiling is the least whole number of minutes that suffices
PolicyLabel(wordCount, wpm) ==
  IF wordCount < wpm THEN "< 1 min"
  ELSE IF wordCount < 2 * wpm THEN "1 min"
  ELSE ToString(Min({ k \in 0..(wordCount + 1) : k * wpm >= wordCount })) \o " min"

\* C6: reading (200 wpm), speaking (150 wpm) and skimming (400 wpm) time each
\* follow the three-branch policy, so the label is "2 min" only when the
\* word count is exactly two minutes' worth.
C6_ThreeBranchPolicy ==
  Analyzed =>
    /\ Result.readingTime = PolicyLabel(Input, ReadingWordsPerMinute)
    /\ Result.speakingTime = PolicyLabel(Input, SpeakingWordsPerMinute)
    /\ Result.skimmingTime = PolicyLabel(Input, SkimmingWordsPerMinute)
    /\ Result.readingTime = "2 min" => Input = 2 * ReadingWordsPerMinute
    /\ Result.speakingTime = "2 min" => Input = 2 * SpeakingWordsPerMinute
    /\ Result.skimmingTime = "2 min" => Input = 2 * SkimmingWordsPerMinute

\* 250 words: 1.25, 1.67 and 0.625 minutes
C6_Witness ==
  /\ Analyzed
  /\ Input = 250
  /\ Result.readingTime = "1 min"
  /\ Result.speakingTime = "1 min"
  /\ Result.skimmingTime = "< 1 min"

SeparatorStarts(s) ==
  { i \in 1..Len(s) :
      /\ CharAt(s, i) = "\n"
      /\ \E j \in (i + 1)..Len(s) :
           CharAt(s, j) = "\n" /\ \A k \in i..j : IsSpace(CharAt(s, k))
      /\ ~ \E h \in 1..(i - 1) :
           CharAt(s, h) = "\n" /\ \A k \in h..i : IsSpace(CharAt(s, k)) }

C9_LineCount ==
  Analyzed =>
    LET newlines == Cardinality({ i \in 1..Len(Input) : CharAt(Input, i) = "\n" })
    IN  Result.stats.lineCount = (IF IsBlank(Input) THEN 0 ELSE 1 + newlines)

\* a trailing newline adds a line
C9_Witness ==
  /\ Analyzed
  /\ Input = "a\n"
  /\ Result.stats.lineCount = 2

\* C10: for a text that is not empty, characterFrequency(text) is a sequence
\* of (char, count) pairs with keys in [a-z0-9] only, each key once, each
\* count the case-insensitive number of occurrences of the key (so > 0), counts
\* not increasing, ties in first-encountered order, at most 50 entries.
C10_CharacterFrequency ==
  (Analyzed /\ Input # "") =>
    LET f == Result.frequency.entries
        lower == toLowerCase(Input)
        chars == [i \in 1..Len(lower) |-> CharAt(lower, i)]
    IN  /\ Result.frequency.isArray
        /\ Len(f) <= 50
        /\ \A i \in 1..Len(f) :
             /\ f[i][1] \in LowerSet \cup DigitSet
             /\ f[i][2] = JSNumber(Occurrences(chars, f[i][1]))
             /\ f[i][2].n > 0
        /\ \A i, j \in 1..Len(f) :
             i < j =>
               /\ f[i][1] # f[j][1]
               /\ f[i][2].n >= f[j][2].n
               /\ f[i][2].n = f[j][2].n =>
                    FirstIndex(chars, f[i][1]) < FirstIndex(chars, f[j][1])
\* C11: duplicateWords(text) holds exactly the distinct tokens of
\* getWords(text) that occur more than once, each once and with its number of
\* occurrences, counts not increasing, ties in first-seen order; the engine
\* result is not truncated, the displayed list is its first 20 entries.
C11_DuplicateWords ==
  Analyzed =>
    LET dup == Result.duplicates
        words == getWords(Input)
    IN  /\ \A w \in Range(words) :
             Occurrences(words, w) > 1 <=> \E i \in 1..Len(dup) : dup[i].word = w
        /\ \A i \in 1..Len(dup) :
             dup[i].count = JSNumber(Occurrences(words, dup[i].word))
        /\ \A i, j \in 1..Len(dup) :
             i < j =>
               /\ dup[i].word # dup[j].word
               /\ dup[i].count.n >= dup[j].count.n
               /\ dup[i].count.n = dup[j].count.n =>
                    FirstIndex(words, dup[i].word) < FirstIndex(words, dup[j].word)
        /\ Result.duplicatesShown =
             (IF Len(dup) = 0 THEN EmptyMessage ELSE Items(Slice0(dup, 20)))

\* the number of tokens of words that are in list
InList(words, list) == Cardinality({ i \in 1..Len(words) : words[i] \in Range(list) })

\* C12: for blank text analyzeSentiment gives score 0 and label "-"; otherwise,
\* with pos and neg the numbers of tokens in the positive and in the negative
\* list, it gives score 0 and "Neutral" when pos + neg = 0, and else the score
\* (pos - neg) / (pos + neg) * 100, within [-100, 100], labelled "Positive"
\* iff score > 20, "Negative" iff score < -20, "Neutral" otherwise.
C12_Sentiment ==
  Analyzed =>
    LET sentiment == Result.stats.sentiment
        words == getWords(Input)
        pos == InList(words, positiveWords)
        neg == InList(words, negativeWords)
    IN  /\ sentiment.den > 0
        /\ IF IsBlank(Input) THEN sentiment.num = 0 /\ sentiment.label = "-"
           ELSE IF pos + neg = 0 THEN sentiment.num = 0 /\ sentiment.label = "Neutral"
           ELSE /\ sentiment.num * (pos + neg) = 100 * (pos - neg) * sentiment.den
                /\ sentiment.num >= (-100) * sentiment.den
                /\ sentiment.num <= 100 * sentiment.den
                /\ sentiment.label = "Positive" <=> sentiment.num > 20 * sentiment.den
                /\ sentiment.label = "Negative" <=> sentiment.num < (-20) * sentiment.den
                /\ sentiment.label = "Neutral" <=>
                     /\ sentiment.num <= 20 * sentiment.den
                     /\ sentiment.num >= (-20) * sentiment.den

\* the score is exactly 20: three positive tokens and two negative ones
C12_Witness ==
  /\ Analyzed
  /\ Input = "good good good bad bad"
  /\ Result.stats.sentiment = [num |-> 100, den |-> 5, label |-> "Neutral"]

\* what detectLanguage returned for the text Input
DetectedLanguage ==
  IF "stats" \in DOMAIN Result THEN Result.stats.detectedLanguage
  ELSE Result.detectedLanguage

\* C13: detectLanguage(text) is "-" exactly for blank text; for any other
\* text, one without tokens included, it is "English" when the stop-word
\* matches among the first 50 tokens divided by min(tokenCount, 50) exceed
\* 0.2 and "English (likely)" otherwise, and nothing else.
C13_DetectLanguage ==
  ret # <<>> =>
    LET words == getWords(Input)
        n == IF Len(words) < 50 THEN Len(words) ELSE 50
        matches == InList(SubSeq(words, 1, n), commonEnglishWords)
        above == n > 0 /\ 5 * matches > n
    IN  /\ DetectedLanguage \in {"-", "English", "English (likely)"}
        /\ DetectedLanguage = "-" <=> IsBlank(Input)
        /\ ~IsBlank(Input) => (DetectedLanguage = "English" <=> above)

\* 51 tokens: 10 of the first 50 are stop words, the 51st is one more
C13_Witness ==
  /\ ret # <<>>
  /\ Len(getWords(Input)) = 51
  /\ InList(getWords(Input), commonEnglishWords) = 11
  /\ DetectedLanguage = "English (likely)"

\* C14: the longest word is the first token, in text order, among the
\* lower-cased tokens of maximum length, the shortest word the first among
\* those of minimum length; both are "-" when the text has no token.
C14_LongestAndShortest ==
  Analyzed =>
    LET words == getWords(Input)
        lengths == { Len(words[i]) : i \in 1..Len(words) }
        firstOfLength(n) == words[Min({ i \in 1..Len(words) : Len(words[i]) = n })]
    IN  IF Len(words) = 0
        THEN Result.stats.longest = "-" /\ Result.stats.shortest = "-"
        ELSE /\ Result.stats.longest = firstOfLength(Max(lengths))
             /\ Result.stats.shortest = firstOfLength(Min(lengths))

\* two tokens of maximum and two of minimum length, the first one upper-cased
C14_Witness ==
  /\ Analyzed
  /\ Input = "Bb aa c d"
  /\ Result.stats.longest = "bb"
  /\ Result.stats.shortest = "c"

\* the vowel chunks of w: every maximal run of aeiouy, two characters at a
\* time, the last chunk of a run of odd length being one character
VowelRunStart(w, i) == Min({ j \in 1..i : \A k \in j..i : CharAt(w, k) \in Vowels })

VowelChunkCount(w) ==
  Cardinality({ i \in 1..Len(w) :
                  CharAt(w, i) \in Vowels /\ (i - VowelRunStart(w, i)) % 2 = 0 })

\* the suffix the code strips: X + "es", "ed" or X + "e", X being any
\* character other than l, a, e, i, o, u, y
CodedSuffixLength(w) ==
  LET n == Len(w)
      X(c) == c \notin {"l", "a", "e", "i", "o", "u", "y"}
  IN  IF n >= 3 /\ X(CharAt(w, n - 2)) /\ SubSeq(w, n - 1, n) = "es" THEN 3
      ELSE IF n >= 2 /\ SubSeq(w, n - 1, n) = "ed" THEN 2
      ELSE IF n >= 2 /\ X(CharAt(w, n - 1)) /\ CharAt(w, n) = "e" THEN 2
      ELSE 0

\* the count for a word longer than 3 once its suffix is stripped
SyllablesOfStem(stem) ==
  LET rest == IF stem # "" /\ Head(stem) = "y" THEN Tail(stem) ELSE stem
  IN  IF VowelChunkCount(rest) > 0 THEN VowelChunkCount(rest) ELSE 1

\* C15, as the code has it: countSyllablesInWord(word) is 1 for a word of
\* length <= 3; for a longer word it strips a trailing X + "es", "ed" or
\* X + "e" (X any character other than l, a, e, i, o, u, y), then a leading
\* "y", and returns the number of vowel chunks of the remainder, or 1 when
\* there is none; the result is >= 1 and is 2 for "reading".
C15_SyllablesInWord ==
  ret # <<>> =>
    LET word == toLowerCase(Input)
        stem == SubSeq(word, 1, Len(word) - CodedSuffixLength(word))
    IN  /\ Result >= 1
        /\ Len(word) <= 3 => Result = 1
        /\ Len(word) > 3 => Result = SyllablesOfStem(stem)
        /\ Input = "reading" => Result = 2

\* "tables" keeps its "es" after the l and has two syllables
C15_Witness ==
  /\ ret # <<>>
  /\ Input = "tables"
  /\ Result = 2

\* C15, as stated: the suffix stripped from a word longer than 3 is
\* consonant + "es", consonant + "ed" or consonant + "e", a consonant being
\* any letter outside aeiouy.
C15_SyllablesInWord_AsStated ==
  ret # <<>> =>
    LET word == toLowerCase(Input)
    IN  /\ Result >= 1
        /\ Len(word) <= 3 => Result = 1
        /\ Len(word) > 3 => Result = SyllablesOfStem(StripSuffix_anyConsonant(word))
        /\ Input = "reading" => Result = 2

\* the page shows the statistics of no text: every count 0, the three
\* lists their empty messages, no chart
ShowsNoText ==
  /\ stats # <<>>
  /\ stats[1].wordCount = 0
  /\ stats[1].charCount = 0
  /\ stats[1].charNoSpacesCount = 0
  /\ stats[1].sentenceCount = 0
  /\ stats[1].paragraphCount = 0
  /\ stats[1].lineCount = 0
  /\ stats[1].uniqueWordsCount = 0
  /\ stats[1].syllableCount = 0
  /\ topWordsList = EmptyMessage
  /\ charFrequencyTable = EmptyMessage
  /\ duplicateWordsList = EmptyMessage
  /\ wordFrequencyChartInstance = <<>>
  /\ readingTimeChartInstance = <<>>
  /\ liveWordFrequencyCharts = 0
  /\ liveReadingTimeCharts = 0

\* C16: whatever text and charts there were, after clearText the input is
\* empty, every count shows 0, the top-words, character-frequency and
\* duplicate-words lists show their empty messages, and both chart handles
\* are null, their charts destroyed.
C16_ClearTextResets ==
  [][ClearText => (textInputValue' = "" /\ ShowsNoText')]_vars

\* the last handler ran updateCharts to its end for the text the input holds
\* (a handler that threw did so for the empty text, and a toggle redraws the
\* charts of any other text)
ChartsUpToDate == stats # <<>> /\ lastError = "none"

\* at most one chart of each type is alive, and an up-to-date handle is
\* non-null iff the text has a token (a word, for the reading-time chart)
C17_Handles ==
  /\ liveWordFrequencyCharts \in {0, 1}
  /\ liveReadingTimeCharts \in {0, 1}
  /\ ChartsUpToDate =>
       /\ wordFrequencyChartInstance # <<>> <=> Len(getWords(textInputValue)) >= 1
       /\ readingTimeChartInstance # <<>> <=> countWords(textInputValue) > 0

\* a Chart is constructed only while the handle is null, and a handle
\* becomes null only as its chart is destroyed
C17_ConstructAndDestroy ==
  /\ liveWordFrequencyCharts' > liveWordFrequencyCharts => wordFrequencyChartInstance = <<>>
  /\ liveReadingTimeCharts' > liveReadingTimeCharts => readingTimeChartInstance = <<>>
  /\ (wordFrequencyChartInstance # <<>> /\ wordFrequencyChartInstance' = <<>>) =>
       liveWordFrequencyCharts' = liveWordFrequencyCharts - 1
  /\ (readingTimeChartInstance # <<>> /\ readingTimeChartInstance' = <<>>) =>
       liveReadingTimeCharts' = liveReadingTimeCharts - 1

\* C17: across text changes and theme toggles at most one Chart per chart
\* type is alive; a Chart is constructed only while its handle is null, a
\* handle is set to null only right after destroy() on its chart, and after a
\* completed updateWordFrequencyChart the handle is non-null iff the text has
\* at least one token (after updateReadingTimeChart iff wordCount > 0).
C17_OneChartPerType == []C17_Handles /\ [][C17_ConstructAndDestroy]_vars

\* the labels and data of the two charts, colours left out; <<>> for no chart
WordChartContent ==
  IF wordFrequencyChartInstance = <<>> THEN <<>>
  ELSE << wordFrequencyChartInstance[1].labels, wordFrequencyChartInstance[1].data >>

TimeChartContent ==
  IF readingTimeChartInstance = <<>> THEN <<>> ELSE << readingTimeChartInstance[1].data >>

\* the same as the engine derives them from the text t: the top 10 words
\* with their counts, and the three time labels as minutes (in tenths)
WordChartContentOf(t) ==
  LET topWords == getMostFrequentWords(t, 10)
  IN  IF Len(topWords) = 0 THEN <<>>
      ELSE << [i \in 1..Len(topWords) |-> topWords[i].word],
              [i \in 1..Len(topWords) |-> topWords[i].count] >>

TimeChartContentOf(t) ==
  LET wordCount == countWords(t)
  IN  IF wordCount = 0 THEN <<>>
      ELSE << << parseTime(calculateReadingTime(wordCount)),
                 parseTime(calculateSpeakingTime(wordCount)),
                 parseTime(calculateSkimmingTime(wordCount)) >> >>

\* a step of toggleTheme: nothing else writes data-theme
ToggleStep == theme' # theme

\* what a toggle leaves alone: the text, the displayed statistics and lists,
\* which charts exist, and their labels and data
C18_ToggleFrame ==
  /\ textInputValue' = textInputValue
  /\ UNCHANGED domVars
  /\ liveWordFrequencyCharts' = liveWordFrequencyCharts
  /\ liveReadingTimeCharts' = liveReadingTimeCharts
  /\ WordChartContent' = WordChartContent
  /\ TimeChartContent' = TimeChartContent

\* C18: toggleTheme leaves the input text and every engine-computed value
\* unchanged; after it the chart labels and data are those derived from the
\* current text, and only colours of the existing charts differ from before.
C18_ToggleKeepsEngineOutput ==
  [][ToggleStep =>
       /\ C18_ToggleFrame
       /\ WordChartContent' = WordChartContentOf(textInputValue')
       /\ TimeChartContent' = TimeChartContentOf(textInputValue')]_vars

\* once toggleTheme has run: data-theme is dark or light and is what
\* localStorage holds; from dark it went to light, from anything else to dark
C19_AfterToggle ==
  toggledFrom # "" =>
    /\ theme \in {"dark", "light"}
    /\ storedTheme = theme
    /\ toggledFrom = "dark" => theme = "light"
    /\ toggledFrom # "dark" => theme = "dark"

\* the second of two consecutive toggles: toggledFrom is the theme before
\* the first, theme' the theme after the second
C19_SecondToggle ==
  (ToggleStep /\ toggledFrom # "") =>
    (theme' = toggledFrom <=> toggledFrom \in {"dark", "light"})

\* C19: after any toggleTheme the data-theme attribute is 'dark' or 'light'
\* and equals localStorage 'theme'; a toggle from 'dark' gives 'light', from
\* anything else 'dark'; two consecutive toggles restore a theme that was
\* 'dark' or 'light', and no other.
C19_ThemeToggle == []C19_AfterToggle /\ [][C19_SecondToggle]_vars

\* the first toggle after initTheme took another value from localStorage
C19_Witness ==
  /\ toggledFrom = "sepia"
  /\ theme = "dark"
  /\ storedTheme = "dark"

\* C20: once initWordCounter has run on a page that has the input
\* (initially empty), the display elements and the three buttons, the input
\* and paste listeners are registered and the clear, copy and download
\* buttons have their onclick handlers: the initial updateStatistics does
\* not keep the installation that follows it from happening.
C20_HandlersInstalled ==
  phase # "loaded" =>
    /\ listening
    /\ pasteListeners >= 1
    /\ buttonsInstalled

\* a step in which initializeWordCounterTool runs
ToolRuns == toolRuns' # toolRuns

\* the step is a timer firing, not DOMContentLoaded
FromTimer == phase' = phase

\* a run of initializeWordCounterTool is still to come
RunPending == phase = "loaded" \/ pollTimers # <<>>

C21_NeverCalledWhileAbsent == initWordCounterCalls' # initWordCounterCalls => textInputPresent

C21_RunWhileAbsent ==
  ToolRuns /\ ~textInputPresent =>
    /\ initWordCounterCalls' = initWordCounterCalls
    /\ Len(pollTimers') = Len(pollTimers) + (IF FromTimer THEN 0 ELSE 1)
    /\ pollTimers'[Len(pollTimers')] = PollDelay

C21_RunWhilePresent ==
  ToolRuns /\ textInputPresent =>
    /\ initWordCounterCalls' = initWordCounterCalls + 1
    /\ Len(pollTimers') = Len(pollTimers) - (IF FromTimer THEN 1 ELSE 0)

C21_PendingWhileAbsent == ~textInputPresent => RunPending

C21_EventuallyCalled == textInputPresent ~> (initWordCounterCalls > 0)

C21_PollingStops == textInputPresent ~> [](~RunPending)

C21_NeverTerminates == <>textInputPresent \/ []<><<ToolRuns>>_vars

\* C21: initializeWordCounterTool never calls initWordCounter while the text
\* input is absent: a run that finds no input calls nothing and leaves one
\* more timer, of 50 ms, in place of the one that fired, and while the input
\* is absent a run is always still to come.  A run that finds the input calls
\* initWordCounter and schedules nothing.  Once the input exists,
\* initWordCounter is eventually called and eventually no run is pending any
\* more; on a page where the input never exists initializeWordCounterTool
\* runs again and again for ever.
C21_InitializationPolling ==
  /\ [][C21_NeverCalledWhileAbsent /\ C21_RunWhileAbsent /\ C21_RunWhilePresent]_vars
  /\ []C21_PendingWhileAbsent
  /\ C21_EventuallyCalled
  /\ C21_PollingStops
  /\ C21_NeverTerminates

\* the input was absent at one run at least, was added, and the next run
\* called initWordCounter once and left no timer
C21_Witness ==
  /\ textInputPresent
  /\ phase = "ready"
  /\ initWordCounterCalls = 1
  /\ toolRuns = 0
  /\ pollTimers = <<>>

====
